---------------------------- MODULE Spec2Model ----------------------------
(***************************************************************************)
(* Model of src/update_gold_prices.py: the ledger updater                  *)
(* (update_csv_file), the publisher (push_to_github), the retry wrapper    *)
(* (retry) and the scheduler loop (main).                                  *)
(*                                                                         *)
(* Calendar days are day ordinals: 1 stands for the default origin         *)
(* "2020-01-01", d+1 for the following day.  '%Y-%m-%d' is fixed width and *)
(* zero padded, so the order and equality of the formatted strings are the *)
(* order and equality of the ordinals.                                     *)
(*                                                                         *)
(* A line of the CSV file is [date, width]: the day in its first field     *)
(* (NaT when pandas cannot parse it) and its number of fields.  The price  *)
(* values do not decide any control flow and are left out.                 *)
(***************************************************************************)
EXTENDS Integers, Sequences, FiniteSets

VARIABLES
    token,    \* GITHUB_TOKEN is set (line 13)
    today,    \* datetime.today(), as a day ordinal
    ledger,   \* the file CSV_FILE_PATH: [exists, header, rows, torn]
    origin,   \* what the ledger was when the process started
    remote,   \* the file behind the GitHub contents API: [exists, content]
    upd,      \* what the last call of update_csv_file did
    pub,      \* what the last call of push_to_github did
    pc,       \* where main() is: idle, due, push, crashed
    rt        \* the frame of retry(func, retries, delay)

vars == <<token, today, ledger, origin, remote, upd, pub, pc, rt>>

----------------------------------------------------------------------------
(* Bounds of the model *)

MaxDay == 3
MaxRows == 5
MaxRetries == 3
MaxDelay == 1

(* Constants of the program *)

DefaultStart == 1
SchemaWidth == 5
ProviderCols == 4
DefaultRetries == 3
DefaultDelay == 5
NaT == 0

----------------------------------------------------------------------------
(* Sequences of rows *)

RECURSIVE SortedSeq(_)
SortedSeq(S) ==
    IF S = {} THEN <<>>
    ELSE LET m == CHOOSE x \in S : \A y \in S : x <= y
         IN  <<m>> \o SortedSeq(S \ {m})

Row(d, w) == [date |-> d, width |-> w]

RowsOf(ds, w) == [i \in DOMAIN ds |-> Row(ds[i], w)]

DateSet(rows) == {rows[i].date : i \in DOMAIN rows}

MaxDate(rows) == CHOOSE d \in DateSet(rows) : \A e \in DateSet(rows) : e <= d

StrictlyAscending(rows) ==
    \A i \in DOMAIN rows : \A j \in DOMAIN rows : i < j => rows[i].date < rows[j].date

IsPrefix(s, t) == Len(s) <= Len(t) /\ SubSeq(t, 1, Len(s)) = s

----------------------------------------------------------------------------
(* The local ledger file *)

Absent == [exists |-> FALSE, header |-> 0, rows |-> <<>>, torn |-> FALSE]

File(h, rows, torn) == [exists |-> TRUE, header |-> h, rows |-> rows, torn |-> torn]

Content(L) == [header |-> L.header, rows |-> L.rows, torn |-> L.torn]

EmptyContent == Content(Absent)

(* The frame selected_data of lines 72-79: the Date index, the provider's   *)
(* four columns and the four scaled columns added beside them.             *)
SelectedWidth == 1 + ProviderCols + ProviderCols


(* pd.read_csv(CSV_FILE_PATH, on_bad_lines='skip') (line 47).  An empty    *)
(* file raises EmptyDataError; a file that ends inside an open quoted      *)
(* field raises ParserError; the header and the first data line set the    *)
(* expected number of fields, a later line with more fields is a bad line  *)
(* and is skipped, a line with fewer is padded.                            *)
read_csv(L) ==
    IF L.header = 0 THEN [err |-> "EmptyDataError", cols |-> 0, rows |-> <<>>]
    ELSE IF L.torn THEN [err |-> "ParserError", cols |-> 0, rows |-> <<>>]
    ELSE IF L.rows = <<>> THEN [err |-> "none", cols |-> L.header, rows |-> <<>>]
    ELSE LET expected == IF L.rows[1].width > L.header
                         THEN L.rows[1].width ELSE L.header
         IN  [err |-> "none", cols |-> L.header,
              rows |-> SelectSeq(L.rows, LAMBDA r : r.width <= expected)]

Plan(next, start, dates) == [next |-> next, start |-> start, dates |-> dates]

(* Lines 45-62: read the existing ledger and choose the fetch start.  Only  *)
(* pd.errors.ParserError is caught; EmptyDataError, the length mismatch of  *)
(* the columns assignment (line 48) and NaT.strftime of an empty frame      *)
(* (line 54) are ValueErrors and leave update_csv_file.                     *)
LoadExisting(L, day) ==
    LET rd == read_csv(L)
        kept == SelectSeq(rd.rows, LAMBDA r : r.date # NaT)
    IN  IF rd.err = "ParserError" THEN Plan("parser_error", 0, {})
        ELSE IF rd.err # "none" THEN Plan("raised", 0, {})
        ELSE IF rd.cols # SchemaWidth THEN Plan("raised", 0, {})
        ELSE IF kept = <<>> THEN Plan("raised", 0, {})
        ELSE IF MaxDate(kept) = day THEN Plan("skip_today", 0, {})
        ELSE Plan("fetch", MaxDate(kept) + 1, DateSet(kept))

(* What the provider can do for history(start, end): raise, or return a    *)
(* frame of consecutive daily rows in ascending date order, or a frame that *)
(* lacks the Open/High/Low/Close columns.  The provider places the range in *)
(* the exchange's time zone and publishes a day's row some time after the   *)
(* day: the row of the day before `start` may be delivered too, and the     *)
(* rows may end at any day up to `end`.                                     *)
Interval(lo, hi) == [i \in 1 .. (hi - lo + 1) |-> lo + i - 1]

Provider(start, day) ==
    LET first == IF start > DefaultStart THEN start - 1 ELSE start
    IN  {[kind |-> "raise", dates |-> <<>>]}
        \cup {[kind |-> "frame", dates |-> Interval(lo, hi)] :
                lo \in {first, start}, hi \in (start - 1) .. day}
        \cup {[kind |-> "badframe", dates |-> Interval(start, day)]}

NoFrame == [kind |-> "none", dates |-> <<>>]

(* Lines 27-33: any exception of the provider is logged and None returned. *)
fetch_data_from_yfinance(resp) ==
    IF resp.kind = "raise" THEN NoFrame ELSE resp

(* A variant without the credential guard. *)
NoGuard(tok) == FALSE

(* `if not GITHUB_TOKEN` (lines 37 and 100). *)
TokenMissing(tok) == ~tok

(* A variant that writes in the default mode 'w' whether or not the file   *)
(* exists.                                                                 *)
to_csv_overwrite(L, new_data) ==
    File(new_data[1].width, new_data, FALSE)

(* Lines 87-91: to_csv in append mode without a header when the file       *)
(* exists, with a header when it does not.                                 *)
to_csv(L, new_data) ==
    IF L.exists
    THEN [L EXCEPT !.rows = @ \o new_data]
    ELSE File(new_data[1].width, new_data, FALSE)

Result(L, outcome, start, calls, failed, fetched) ==
    [ledger |-> L, outcome |-> outcome, start |-> start, calls |-> calls,
     failed |-> failed, fetched |-> fetched]

(* Lines 64-96: one call of the fetcher, then select, scale, relabel,      *)
(* filter out the existing dates and write.                                *)
ProcessFetched(L, plan, resp) ==
    LET historical_data == fetch_data_from_yfinance(resp)
        selected_data == RowsOf(historical_data.dates, SelectedWidth)
        new_data == IF L.exists
                    THEN SelectSeq(selected_data, LAMBDA r : r.date \notin plan.dates)
                    ELSE selected_data
        got == {historical_data.dates[i] : i \in DOMAIN historical_data.dates}
    IN  IF historical_data.kind = "none"
        THEN Result(L, "no_data", plan.start, 1, TRUE, {})
        ELSE IF historical_data.dates = <<>>
        THEN Result(L, "no_data", plan.start, 1, FALSE, {})
        ELSE IF historical_data.kind = "badframe"
        THEN Result(L, "process_error", plan.start, 1, FALSE, {})
        ELSE IF new_data # <<>>
        THEN Result(to_csv(L, new_data), "appended", plan.start, 1, FALSE, got)
        ELSE Result(L, "nothing_new", plan.start, 1, FALSE, got)

(* update_csv_file (lines 36-96): every result the call can have on ledger *)
(* L with the credential tok on day `day`, over what the provider does.    *)
update_csv_file(L, tok, day) ==
    LET plan == IF L.exists THEN LoadExisting(L, day)
                ELSE Plan("fetch", DefaultStart, {})
    IN  IF TokenMissing(tok) THEN {Result(L, "no_token", 0, 0, FALSE, {})}
        ELSE IF plan.next # "fetch" THEN {Result(L, plan.next, 0, 0, FALSE, {})}
        ELSE {ProcessFetched(L, plan, resp) : resp \in Provider(plan.start, day)}


----------------------------------------------------------------------------
(* The remote file behind the GitHub contents API *)

NoSha == [present |-> FALSE, of |-> EmptyContent]

(* The version token of a blob: a hash of its content. *)
BlobSha(content) == [present |-> TRUE, of |-> content]

NoRemote == [exists |-> FALSE, content |-> EmptyContent]

b64encode(content) == <<"base64", content>>

b64decode(encoded) == encoded[2]

(* What requests.get(url) can bring (line 111): an exception, an error     *)
(* status, 404 when the file is not there, 200 with the file's metadata     *)
(* (content_data.get('sha', None) is None when it carries no sha).          *)
GetResponses(rem) ==
    {[kind |-> "raise", status |-> 0, sha |-> NoSha],
     [kind |-> "response", status |-> 401, sha |-> NoSha]}
    \cup (IF rem.exists
          THEN {[kind |-> "response", status |-> 200, sha |-> sh] :
                    sh \in {BlobSha(rem.content), NoSha}}
          ELSE {[kind |-> "response", status |-> 404, sha |-> NoSha]})

(* What requests.put(url, json=payload) can bring (line 125): an           *)
(* exception, 200 with the file replaced when the payload's sha is the      *)
(* file's, 409 when another editor got in between, 422 without a sha.       *)
PutResponses(rem, payload) ==
    {[kind |-> "raise", status |-> 0, remote |-> rem],
     [kind |-> "response", status |-> 409, remote |-> rem]}
    \cup (IF rem.exists /\ payload.sha = BlobSha(rem.content)
          THEN {[kind |-> "response", status |-> 200,
                 remote |-> [exists |-> TRUE, content |-> b64decode(payload.content)]]}
          ELSE {[kind |-> "response", status |-> 422, remote |-> rem]})

Pushed(rem, outcome, gets, puts, getStatus, getSha, putSha) ==
    [remote |-> rem, outcome |-> outcome, gets |-> gets, puts |-> puts,
     getStatus |-> getStatus, getSha |-> getSha, putSha |-> putSha]

(* A variant that goes on whatever the status of the GET. *)
AnyStatus(status) == TRUE

(* Line 112: the publish goes on only after a 200. *)
MetadataOk(status) == status = 200

(* Lines 116-131: the PUT with the sha of the GET's response. *)
PutFile(L, rem, get) ==
    LET payload == [content |-> b64encode(Content(L)), sha |-> get.sha]
    IN  {Pushed(put.remote,
                IF put.kind = "raise" THEN "exception"
                ELSE IF put.status \in {200, 201} THEN "pushed" ELSE "put_failed",
                1, 1, get.status, get.sha, payload.sha) :
            put \in PutResponses(rem, payload)}

(* push_to_github (lines 99-131): every result the call can have. *)
push_to_github(L, tok, rem) ==
    IF TokenMissing(tok) THEN {Pushed(rem, "no_token", 0, 0, 0, NoSha, NoSha)}
    ELSE IF ~L.exists THEN {Pushed(rem, "exception", 0, 0, 0, NoSha, NoSha)}
    ELSE UNION {
        IF get.kind = "raise"
        THEN {Pushed(rem, "exception", 1, 0, 0, NoSha, NoSha)}
        ELSE IF ~MetadataOk(get.status)
        THEN {Pushed(rem, "get_failed", 1, 0, get.status, get.sha, NoSha)}
        ELSE PutFile(L, rem, get) : get \in GetResponses(rem)}


----------------------------------------------------------------------------
(* The state at the start of the process *)

InitLedgers(day) ==
    {Absent,
     File(0, <<>>, FALSE),
     File(SchemaWidth, <<>>, FALSE),
     File(SchemaWidth, <<Row(1, SchemaWidth)>>, TRUE),
     File(SchemaWidth, <<Row(NaT, SchemaWidth)>>, FALSE),
     File(SchemaWidth, <<Row(1, SchemaWidth), Row(NaT, SchemaWidth)>>, FALSE)}
    \cup {File(SchemaWidth, RowsOf(SortedSeq(S), SchemaWidth), FALSE) :
            S \in (SUBSET (1 .. day)) \ {{}}}

WellFormed(L) ==
    /\ L.exists /\ L.header = SchemaWidth /\ ~L.torn
    /\ \A i \in DOMAIN L.rows : L.rows[i].date # NaT /\ L.rows[i].width = SchemaWidth
    /\ StrictlyAscending(L.rows)

Origin(L) ==
    IF ~L.exists THEN "absent" ELSE IF WellFormed(L) THEN "sorted" ELSE "malformed"

NoUpdate ==
    [n |-> 0, day |-> 0, outcome |-> "none", start |-> 0, calls |-> 0,
     failed |-> FALSE, fetched |-> {}]

NoPush ==
    [n |-> 0, outcome |-> "none", gets |-> 0, puts |-> 0, getStatus |-> 0,
     getSha |-> NoSha, putSha |-> NoSha]

RetryIdle ==
    [retries |-> 0, delay |-> 0, i |-> 0, calls |-> 0, fails |-> 0, slept |-> 0,
     pc |-> "idle", result |-> "unset", got |-> "unset", returned |-> FALSE]

Init ==
    /\ token \in BOOLEAN
    /\ today \in 1 .. MaxDay
    /\ ledger \in InitLedgers(today)
    /\ origin = Origin(ledger)
    /\ remote \in {NoRemote,
                   [exists |-> TRUE, content |-> Content(File(SchemaWidth, <<>>, FALSE))]}
    /\ upd = NoUpdate
    /\ pub = NoPush
    /\ pc = "idle"
    /\ rt = RetryIdle

Updated(r) ==
    [n |-> 1 - upd.n, day |-> today, outcome |-> r.outcome, start |-> r.start,
     calls |-> r.calls, failed |-> r.failed, fetched |-> r.fetched]

Published(r) ==
    [n |-> 1 - pub.n, outcome |-> r.outcome, gets |-> r.gets, puts |-> r.puts,
     getStatus |-> r.getStatus, getSha |-> r.getSha, putSha |-> r.putSha]

----------------------------------------------------------------------------
(* main (lines 134-139): the job (update_csv_file(), push_to_github()) is   *)
(* due every day at 00:00 and run by schedule.run_pending().                *)

(* A variant of the job that publishes only when rows were appended. *)
SkipPushOnNoop(outcome) ==
    IF outcome = "raised" THEN "crashed"
    ELSE IF outcome = "appended" THEN "push" ELSE "idle"

(* The tuple of the job's lambda (line 135) is evaluated left to right: an  *)
(* exception of update_csv_file leaves the lambda, run_pending and main.    *)
AfterUpdate(outcome) ==
    IF outcome = "raised" THEN "crashed" ELSE "push"

Midnight ==
    /\ pc = "idle"
    /\ today < MaxDay
    /\ today' = today + 1
    /\ pc' = "due"
    /\ UNCHANGED <<token, ledger, origin, remote, upd, pub, rt>>

JobUpdate ==
    /\ pc = "due"
    /\ \E r \in update_csv_file(ledger, token, today) :
        /\ ledger' = r.ledger
        /\ upd' = Updated(r)
        /\ pc' = AfterUpdate(r.outcome)
    /\ UNCHANGED <<token, today, origin, remote, pub, rt>>

JobPush ==
    /\ pc = "push"
    /\ \E r \in push_to_github(ledger, token, remote) :
        /\ remote' = r.remote
        /\ pub' = Published(r)
    /\ pc' = "idle"
    /\ UNCHANGED <<token, today, ledger, origin, upd, rt>>

Next == Midnight \/ JobUpdate \/ JobPush

Spec == Init /\ [][Next]_vars

----------------------------------------------------------------------------
(* update_csv_file and push_to_github called directly, in any order and    *)
(* any number of times a day.                                              *)

DayPasses ==
    /\ today < MaxDay
    /\ today' = today + 1
    /\ UNCHANGED <<token, ledger, origin, remote, upd, pub, pc, rt>>

CallUpdate ==
    /\ Len(ledger.rows) <= MaxRows
    /\ \E r \in update_csv_file(ledger, token, today) :
        /\ ledger' = r.ledger
        /\ upd' = Updated(r)
    /\ UNCHANGED <<token, today, origin, remote, pub, pc, rt>>

CallPush ==
    /\ \E r \in push_to_github(ledger, token, remote) :
        /\ remote' = r.remote
        /\ pub' = Published(r)
    /\ UNCHANGED <<token, today, ledger, origin, upd, pc, rt>>

NextCalls == DayPasses \/ CallUpdate \/ CallPush

SpecCalls == Init /\ [][NextCalls]_vars

----------------------------------------------------------------------------
(* retry(func, retries=3, delay=5) (lines 16-24) *)

None == "None"

(* What func() can do: raise an Exception, or return a value. *)
FuncOutcomes ==
    {[raises |-> TRUE, value |-> None]}
    \cup {[raises |-> FALSE, value |-> v] : v \in {None, "frame", "empty"}}

InitRetry ==
    /\ token = TRUE
    /\ today = 1
    /\ ledger = Absent
    /\ origin = "absent"
    /\ remote = NoRemote
    /\ upd = NoUpdate
    /\ pub = NoPush
    /\ pc = "idle"
    /\ \E r \in (0 .. MaxRetries) \cup {DefaultRetries} :
       \E d \in (0 .. MaxDelay) \cup {DefaultDelay} :
            rt = [RetryIdle EXCEPT !.retries = r, !.delay = d, !.pc = "loop"]

(* A variant of the loop bound that is off by one. *)
OneMore(i, retries) == i > retries

(* range(retries) is exhausted (line 17). *)
RangeExhausted(i, retries) == i >= retries

(* Lines 18-21: one invocation of func; its result is returned, its         *)
(* exception is caught and logged.                                          *)
RetryInvoke ==
    /\ rt.pc = "loop"
    /\ ~RangeExhausted(rt.i, rt.retries)
    /\ \E out \in FuncOutcomes :
        rt' = IF out.raises
              THEN [rt EXCEPT !.calls = @ + 1, !.fails = @ + 1, !.pc = "sleep"]
              ELSE [rt EXCEPT !.calls = @ + 1, !.result = out.value,
                              !.got = out.value, !.returned = TRUE, !.pc = "done"]
    /\ UNCHANGED <<token, today, ledger, origin, remote, upd, pub, pc>>

(* Line 22: time.sleep(delay), then the next i. *)
RetrySleep ==
    /\ rt.pc = "sleep"
    /\ rt' = [rt EXCEPT !.slept = @ + rt.delay, !.i = @ + 1, !.pc = "loop"]
    /\ UNCHANGED <<token, today, ledger, origin, remote, upd, pub, pc>>

(* Lines 23-24: "Max retries reached", return None. *)
RetryGiveUp ==
    /\ rt.pc = "loop"
    /\ RangeExhausted(rt.i, rt.retries)
    /\ rt' = [rt EXCEPT !.result = None, !.pc = "done"]
    /\ UNCHANGED <<token, today, ledger, origin, remote, upd, pub, pc>>

NextRetry == RetryInvoke \/ RetrySleep \/ RetryGiveUp

SpecRetry == InitRetry /\ [][NextRetry]_vars /\ WF_vars(NextRetry)


----------------------------------------------------------------------------
(* Steps *)

UpdateStep == upd'.n # upd.n

PushStep == pub'.n # pub.n

LastStoredDate(L) == L.rows[Len(L.rows)].date

(* The content of L is a prefix of the content of M. *)
ContentPrefix(L, M) ==
    \/ ~L.exists
    \/ /\ M.exists
       /\ M.header = L.header
       /\ M.torn = L.torn
       /\ IsPrefix(L.rows, M.rows)

----------------------------------------------------------------------------
(* C1: from an absent ledger or a ledger with unique ascending dates, the   *)
(* dates stored in the ledger are always strictly ascending in storage      *)
(* order, hence without duplicates.                                         *)
C1_DatesStrictlyAscending ==
    origin \in {"absent", "sorted"} => StrictlyAscending(ledger.rows)

(* C2: a second call of update_csv_file on the same day, to which the       *)
(* provider returns no date it did not return to the first, leaves the      *)
(* ledger as the first call left it.                                        *)
C2_SecondRunSameDayIdentical ==
    [][(/\ UpdateStep
        /\ upd.outcome # "none"
        /\ upd.day = today
        /\ upd'.fetched \subseteq upd.fetched) => ledger' = ledger]_vars

(* C3: when update_csv_file calls the fetcher, the start date is the day    *)
(* after the last stored date of an existing ledger, and the default origin *)
(* when there is no ledger.                                                 *)
C3_FetchStartsAfterLastStoredDate ==
    [][(UpdateStep /\ upd'.calls = 1 /\ origin \in {"absent", "sorted"}) =>
         upd'.start = IF ledger.exists THEN LastStoredDate(ledger) + 1
                      ELSE DefaultStart]_vars

(* C4: no failure inside a scheduled tick ends the scheduler loop.          *)
C4_LoopNeverTerminates == pc # "crashed"

(* C5: an update cycle never concludes "no new data" after a single failed  *)
(* provider call: the failing fetch has been tried again first.             *)
C5_FailedFetchIsRetried ==
    (upd.outcome = "no_data" /\ upd.failed) => upd.calls > 1

(* C6: without the credential, update_csv_file and push_to_github return    *)
(* without raising and without effect: no provider call, the ledger and     *)
(* the remote file unchanged, no GET and no PUT.                            *)
C6_NoCredentialNoEffect ==
    [][~token =>
        /\ ledger' = ledger
        /\ remote' = remote
        /\ UpdateStep => upd'.outcome = "no_token" /\ upd'.calls = 0
        /\ PushStep => /\ pub'.outcome = "no_token"
                       /\ pub'.gets = 0
                       /\ pub'.puts = 0]_vars

(* C6 witness: both functions have been called without the credential.      *)
C6_Witness ==
    ~token /\ upd.outcome = "no_token" /\ pub.outcome = "no_token"

(* C7: a publish issues at most one PUT, only after its GET returned 200,   *)
(* with the sha of that GET's response; after a GET that returned another   *)
(* status there is no PUT and the remote file is unchanged.                 *)
C7_PutOnlyAfterGet200 ==
    /\ [](/\ pub.puts <= 1
          /\ pub.puts = 1 =>
                pub.gets = 1 /\ pub.getStatus = 200 /\ pub.putSha = pub.getSha
          /\ (pub.gets = 1 /\ pub.getStatus # 200) => pub.puts = 0)
    /\ [][/\ (PushStep /\ pub'.gets = 1 /\ pub'.getStatus # 200) => remote' = remote
          /\ remote' # remote => PushStep /\ pub'.puts = 1]_vars

(* C7 witness: a publish whose GET returned 200 with a sha and whose PUT    *)
(* replaced the remote file by the ledger.                                  *)
C7_Witness ==
    /\ pub.outcome = "pushed"
    /\ pub.putSha.present
    /\ remote.content = Content(ledger)
    /\ ledger.rows # <<>>

(* C8 as stated: retry invokes func at most `retries` times, returns the    *)
(* first result that is not an exception, has slept the delay after each    *)
(* failed invocation, and returns None exactly when all `retries`           *)
(* invocations raised.                                                      *)
C8_NoneExactlyWhenAllRaised ==
    /\ rt.calls <= rt.retries
    /\ rt.pc = "done" =>
        /\ rt.slept = rt.delay * rt.fails
        /\ rt.returned => rt.result = rt.got
        /\ rt.result = None <=> (rt.fails = rt.retries /\ ~rt.returned)

RetryInv ==
    /\ rt.pc \in {"loop", "sleep", "done"}
    /\ rt.calls <= rt.retries
    /\ rt.slept = rt.delay * (IF rt.pc = "sleep" THEN rt.fails - 1 ELSE rt.fails)
    /\ rt.pc = "done" =>
        /\ rt.returned => rt.result = rt.got /\ rt.calls = rt.fails + 1
        /\ ~rt.returned => /\ rt.result = None
                           /\ rt.fails = rt.retries
                           /\ rt.calls = rt.retries

(* C8, amended: retry terminates; it invokes func at most `retries` times,  *)
(* returns the result of the first invocation that does not raise (which    *)
(* may itself be None) without invoking func again, has slept the delay     *)
(* after each failed invocation, and returns None when all `retries`        *)
(* invocations raised.                                                      *)
C8_RetryTerminates == []RetryInv /\ <>(rt.pc = "done")

(* C8 witness: retry has returned None after three failed invocations.      *)
C8_Witness ==
    /\ rt.pc = "done"
    /\ rt.retries = DefaultRetries
    /\ rt.fails = DefaultRetries
    /\ rt.result = None
    /\ rt.slept = DefaultRetries * rt.delay
    /\ rt.delay = DefaultDelay

(* C9: the ledger content before a call of update_csv_file is a prefix of   *)
(* its content after it, and any outcome other than an append leaves the    *)
(* ledger unchanged.                                                        *)
C9_LedgerAppendOnly ==
    [][/\ ContentPrefix(ledger, ledger')
       /\ (UpdateStep /\ upd'.outcome # "appended") => ledger' = ledger]_vars

(* C9 witness: rows have been appended to a ledger that had rows.           *)
C9_Witness ==
    /\ upd.outcome = "appended"
    /\ Len(ledger.rows) >= 2
    /\ ledger.rows[1].width = SchemaWidth
    /\ LastStoredDate(ledger) \in upd.fetched
    /\ ledger.rows[Len(ledger.rows)].width = SelectedWidth

(* C10: in a tick update_csv_file runs first, and whenever it returns,      *)
(* whatever it did, push_to_github is attempted in the same tick.           *)
C10_PushFollowsUpdate ==
    [][/\ UpdateStep =>
            /\ pc = "due"
            /\ pc' = IF upd'.outcome = "raised" THEN "crashed" ELSE "push"
       /\ PushStep => pc = "push" /\ upd.day = today /\ upd.outcome # "raised"
       /\ (pc = "push" /\ pc' # "push") => PushStep /\ today' = today
       /\ today' # today => pc = "idle"]_vars

(* C10 witness: a tick whose update fetched nothing has attempted its push. *)
C10_Witness ==
    /\ pc = "idle"
    /\ upd.outcome = "no_data"
    /\ upd.day = today
    /\ pub.gets = 1

====
